---- MODULE Spec2Model ----
(***************************************************************************)
(* sockle: a synchronous client session (SimpleSockleClient) and a         *)
(* thread-per-connection server (SimpleSockleServer) over a websocket      *)
(* transport.                                                              *)
(*                                                                         *)
(* The transport (tungstenite over a TCP stream) is an external library.   *)
(* It is modelled by what its calls return to this repository's code: one  *)
(* frame queue per direction and connection, an open flag per end, the     *)
(* stream's non-blocking flag and read-timeout flag.                       *)
(***************************************************************************)
EXTENDS Integers, Sequences, FiniteSets, TLC

\* ------------------------------------------------------------- bounds
NClients == 2
MaxConns == 2
MaxInbox == 2
MaxOut == 2
MaxWrites == 1
MaxSends == 2
MaxListens == 2
MaxShutdowns == 2
MaxTimeout == 2
MaxElapsed == 5

Clients == 1..NClients
Conns == 1..MaxConns
Listeners == 1..MaxListens

\* The i-th text a client writes on a connection and the i-th text the server
\* broadcasts carry distinct tags, so that a delivery can be told from another.
ClientTexts == <<"c1", "c2", "c3", "c4">>
SendTexts == <<"s1", "s2", "s3", "s4">>
Texts == {ClientTexts[i] : i \in 1..4} \cup {SendTexts[i] : i \in 1..4} \cup {"ack"}

\* Frames on the wire.  BAD is a frame the websocket layer rejects when it is
\* read (oversized message, invalid UTF-8): the read fails, the stream lives on.
Skipped == {"BIN", "PING", "PONG"}
Frames == Texts \cup Skipped \cup {"CLOSE", "BAD"}

\* What a connect() url can be: malformed, or a well-formed address.
Addrs == {"A", "B"}
Urls == Addrs \cup {"bad"}

\* How the platform reports an elapsed read timeout (client/mod.rs:89).
TimeoutKinds == {"WouldBlock", "TimedOut"}
\* What a read reports once the peer's end of the stream is gone.
EofKinds == {"ConnectionClosed", "AlreadyClosed", "Protocol"}
\* What a write or a close reports.
WriteKinds == {"ok", "ConnectionClosed", "Io"}

VARIABLES
  \* ---- client sessions
  socket,        \* socket[c]: 0 is None, k > 0 is Some(stream of connection k)
  connecting,    \* connecting[c]: the connection a connect() in progress waits on, or 0
  ret,           \* ret[c]: what the client's last call returned
  nw,            \* nw[k]: texts written by the client on connection k
  rtcall,        \* rtcall[c]: the read_timeout call the client is in, and its clock
  \* ---- transport, per connection
  hs,            \* handshake stage: free, backlog, spawned, ok, err
  peer,          \* the listener whose address the connection went to (0: none)
  cliOpen,       \* the client holds its end of the stream
  srvOpen,       \* the server side (backlog, worker) holds its end
  nonblocking,   \* the client stream's O_NONBLOCK flag
  rtimeout,      \* the client stream has a read timeout set
  s2c,           \* frames in flight to the client
  c2s,           \* frames in flight to the server
  \* ---- server control plane
  thread_ctrl,   \* 0 is None, l > 0 is Some(sender to accept loop l)
  thread_senders,\* the registry: connection ids in push order
  on_message,    \* on_message[l]: the callback accept loop l hands to its workers
  dropped,       \* the SimpleSockleServer value has been dropped
  lpc,           \* accept loop threads: none, run, ended
  laddr,         \* the address each accept loop is bound to
  lsig,          \* a () is queued on accept loop l's channel
  spc,           \* where the caller of the server is: idle, signal, wait
  sret,          \* what the last server call returned
  nsend,         \* send() calls so far
  nshut,         \* shutdown() calls so far
  \* ---- connection workers
  wpc,           \* none, accept, register, read, ctrl, flush, done
  ctrl,          \* the worker's control channel
  q,             \* the pending reply queue of the message being handled
  \* ---- observation (history) variables
  got,           \* got[k]: texts the client's reads returned on connection k
  wrote,         \* wrote[k]: texts the worker wrote to its socket
  due,           \* due[k]: texts the worker took on to write, in the order taken
  sendLog,       \* one record per send(): who was registered, who was connected
  shut           \* the last shutdown(): the workers live and the clients connected then

cvars == <<socket, connecting, ret, nw, rtcall>>
tvars == <<hs, peer, cliOpen, srvOpen, nonblocking, rtimeout, s2c, c2s>>
svars == <<thread_ctrl, thread_senders, on_message, dropped, lpc, laddr, lsig, spc, sret,
           nsend, nshut>>
wvars == <<wpc, ctrl, q>>
hvars == <<got, wrote, due, sendLog, shut>>
vars == <<cvars, tvars, svars, wvars, hvars>>

Ret(op, res, val) == [op |-> op, res |-> res, val |-> val]

\* No read_timeout call in progress.  timeout: the call's argument; elapsed: the
\* time since the call began; waited: the time the socket read now blocking
\* has waited.  Time is counted in units of which a timeout is a multiple.
NoCall == [pc |-> "idle", timeout |-> 0, elapsed |-> 0, waited |-> 0]

\* ------------------------------------------------------------- Init
\* SimpleSockleClient::new (socket: None) and SimpleSockleServer::new
\* (thread_ctrl: None, thread_senders: empty).
Init ==
  /\ socket = [c \in Clients |-> 0]
  /\ connecting = [c \in Clients |-> 0]
  /\ ret = [c \in Clients |-> Ret("new", "Ok", "")]
  /\ nw = [k \in Conns |-> 0]
  /\ rtcall = [c \in Clients |-> NoCall]
  /\ hs = [k \in Conns |-> "free"]
  /\ peer = [k \in Conns |-> 0]
  /\ cliOpen = [k \in Conns |-> FALSE]
  /\ srvOpen = [k \in Conns |-> FALSE]
  /\ nonblocking = [k \in Conns |-> FALSE]
  /\ rtimeout = [k \in Conns |-> FALSE]
  /\ s2c = [k \in Conns |-> <<>>]
  /\ c2s = [k \in Conns |-> <<>>]
  /\ thread_ctrl = 0
  /\ thread_senders = <<>>
  /\ on_message = [l \in Listeners |-> "noop"]
  /\ dropped = FALSE
  /\ lpc = [l \in Listeners |-> "none"]
  /\ laddr = [l \in Listeners |-> "A"]
  /\ lsig = [l \in Listeners |-> FALSE]
  /\ spc = "idle"
  /\ sret = Ret("new", "Ok", "")
  /\ nsend = 0
  /\ nshut = 0
  /\ wpc = [k \in Conns |-> "none"]
  /\ ctrl = [k \in Conns |-> <<>>]
  /\ q = [k \in Conns |-> <<>>]
  /\ got = [k \in Conns |-> <<>>]
  /\ wrote = [k \in Conns |-> <<>>]
  /\ due = [k \in Conns |-> <<>>]
  /\ sendLog = <<>>
  /\ shut = [called |-> FALSE, live |-> {}, conn |-> {}, reg |-> {}]

\* ============================================================ CLIENT
\* SimpleSockleClient::error_if_closed: TRUE when it returns Ok.
error_if_closed(c) == socket[c] # 0

\* SimpleSockleClient::map_error.
map_error(e) ==
  IF e \in {"ConnectionClosed", "AlreadyClosed"} THEN "Disconnected" ELSE "SocketError"

\* WebSocket::read_message on the client's stream: the next frame, an error, or
\* (blocking stream, no timeout, nothing to read, peer alive) no return at all.
\*   eof: the error reported once the peer end is gone;
\*   tk:  the io error kind of an elapsed timeout on this platform.
socket_read(fq, peerOpen, nb, to, eof, tk) ==
  IF fq # <<>>
  THEN IF Head(fq) = "BAD"
       THEN [kind |-> "err", v |-> "Capacity", rest |-> Tail(fq)]
       ELSE [kind |-> "msg", v |-> Head(fq), rest |-> Tail(fq)]
  ELSE IF ~peerOpen THEN [kind |-> "err", v |-> eof, rest |-> fq]
  ELSE IF nb THEN [kind |-> "err", v |-> "WouldBlock", rest |-> fq]
  ELSE IF to THEN [kind |-> "err", v |-> tk, rest |-> fq]
  ELSE [kind |-> "block", v |-> "", rest |-> fq]

\* SimpleSockleClient::read_message: loops over socket.read_message until a text
\* (Ok), a close frame (close_socket, then Err(SocketDisconnected)) or an error
\* (map_error, returned by `?` with the socket left as it is).
RECURSIVE read_message(_, _, _, _, _, _)
read_message(fq, peerOpen, nb, to, eof, tk) ==
  LET r == socket_read(fq, peerOpen, nb, to, eof, tk) IN
  IF r.kind = "block"
  THEN [res |-> "Block", val |-> "", rest |-> r.rest, closed |-> FALSE]
  ELSE IF r.kind = "err"
  THEN [res |-> map_error(r.v), val |-> r.v, rest |-> r.rest, closed |-> FALSE]
  ELSE IF r.v = "CLOSE"
  THEN [res |-> "Disconnected", val |-> "CloseFrame", rest |-> r.rest, closed |-> TRUE]
  ELSE IF r.v \in Skipped
  THEN read_message(r.rest, peerOpen, nb, to, eof, tk)
  ELSE [res |-> "Ok", val |-> r.v, rest |-> r.rest, closed |-> FALSE]

\* read_and_wrap_by_error_kind as it would be without the Ok(None) arm.
read_and_wrap_unmapped(r, F) ==
  IF r.res = "Ok" THEN [r EXCEPT !.res = "Some"] ELSE r

\* SimpleSockleClient::read_and_wrap_by_error_kind: Ok(Some), Ok(None) for an io
\* error whose kind is in F, the error otherwise.
read_and_wrap_by_error_kind(r, F) ==
  IF r.res = "Ok" THEN [r EXCEPT !.res = "Some"]
  ELSE IF r.res = "SocketError" /\ r.val \in F THEN [r EXCEPT !.res = "None", !.val = ""]
  ELSE r

\* SimpleSockleClient::close_socket, the condition of its wait loop:
\* `!socket.write_pending().is_err() && timeout > Instant::now()`.
\*   pending: write_pending() returned Ok; elapsed: Instant::now() is past timeout.
client_close_waits(pending, elapsed) == pending /\ ~elapsed

\* SimpleSockleClient::close_socket, its result:
\*   sent: what socket.close(cf) returned; wait: how the bounded write_pending
\*   loop ended ("error": write_pending failed first, "ceiling": 10 s elapsed).
close_socket_result(sent, wait) ==
  IF sent # "ok" THEN "Ok"
  ELSE IF wait = "ceiling" THEN "CloseTimeout"
  ELSE "Ok"

\* A frame the client writes on connection k is carried to a worker of this
\* server when the connection went to one of its accept loops and the server
\* end is held; the frames sent to a peer outside the model leave it.
Carried(k) == peer[k] # 0 /\ srvOpen[k]

\* The state a client call leaves behind.  closing: close_socket ran (socket =
\* None, the stream is dropped with what it had not read, a close frame went out
\* if the send worked; a peer outside the model is forgotten).
ClientEffect(c, k, r, rest, closing, sent, nb2, to2) ==
  /\ ret' = [ret EXCEPT ![c] = r]
  /\ s2c' = [s2c EXCEPT ![k] = IF closing THEN <<>> ELSE rest]
  /\ IF closing
     THEN /\ socket' = [socket EXCEPT ![c] = 0]
          /\ cliOpen' = [cliOpen EXCEPT ![k] = FALSE]
          /\ c2s' = [c2s EXCEPT ![k] = IF sent = "ok" /\ Carried(k) THEN Append(@, "CLOSE") ELSE @]
          /\ srvOpen' = [srvOpen EXCEPT ![k] = @ /\ peer[k] # 0]
          /\ nonblocking' = [nonblocking EXCEPT ![k] = FALSE]
          /\ rtimeout' = [rtimeout EXCEPT ![k] = FALSE]
     ELSE /\ nonblocking' = [nonblocking EXCEPT ![k] = nb2]
          /\ rtimeout' = [rtimeout EXCEPT ![k] = to2]
          /\ UNCHANGED <<socket, cliOpen, c2s, srvOpen>>

\* A call on a session that error_if_closed rejects: only the return value.
Rejected(c, op, res) ==
  /\ ret' = [ret EXCEPT ![c] = Ret(op, res, "")]
  /\ UNCHANGED <<socket, connecting, nw, rtcall, tvars, svars, wvars, hvars>>

\* What a write on the client's stream can report: it works while the peer end
\* is open; once the peer is gone it may still be buffered or fail.
CanWrite(k, w) == srvOpen[k] => w = "ok"

FreeConns == {k \in Conns : hs[k] = "free"}
NewConn == CHOOSE k \in FreeConns : \A j \in FreeConns : k <= j

\* connect as it would be with the url parsed before the state is looked at.
connect_start_parse_first(c, url, reach, l) ==
  /\ connecting[c] = 0
  /\ IF url = "bad" THEN Rejected(c, "connect", "InvalidUrl")
     ELSE IF error_if_closed(c) THEN Rejected(c, "connect", "SocketConnected")
     ELSE IF ~reach THEN Rejected(c, "connect", "SocketError")
     ELSE /\ FreeConns # {}
          /\ connecting' = [connecting EXCEPT ![c] = NewConn]
          /\ ret' = [ret EXCEPT ![c] = Ret("connect", "Pending", "")]
          /\ hs' = [hs EXCEPT ![NewConn] = "backlog"]
          /\ peer' = [peer EXCEPT ![NewConn] = l]
          /\ cliOpen' = [cliOpen EXCEPT ![NewConn] = TRUE]
          /\ srvOpen' = [srvOpen EXCEPT ![NewConn] = TRUE]
          /\ UNCHANGED <<socket, nw, rtcall, nonblocking, rtimeout, s2c, c2s, svars, wvars, hvars>>

\* SockleClient::connect, up to the point where tungstenite::connect waits for
\* the handshake response.  reach: the TCP connect to the url succeeds;
\* l: the accept loop listening there (0: a peer outside the model).
connect_start(c, url, reach, l) ==
  /\ connecting[c] = 0
  /\ IF error_if_closed(c) THEN Rejected(c, "connect", "SocketConnected")
     ELSE IF url = "bad" THEN Rejected(c, "connect", "InvalidUrl")
     ELSE IF ~reach THEN Rejected(c, "connect", "SocketError")
     ELSE /\ FreeConns # {}
          /\ connecting' = [connecting EXCEPT ![c] = NewConn]
          /\ ret' = [ret EXCEPT ![c] = Ret("connect", "Pending", "")]
          /\ hs' = [hs EXCEPT ![NewConn] = "backlog"]
          /\ peer' = [peer EXCEPT ![NewConn] = l]
          /\ cliOpen' = [cliOpen EXCEPT ![NewConn] = TRUE]
          /\ srvOpen' = [srvOpen EXCEPT ![NewConn] = TRUE]
          /\ UNCHANGED <<socket, nw, rtcall, nonblocking, rtimeout, s2c, c2s, svars, wvars, hvars>>

\* SockleClient::connect, from the handshake response on: self.socket =
\* Some(socket) on success, the mapped error otherwise.
connect_finish(c) ==
  LET k == connecting[c] IN
  /\ k # 0
  /\ hs[k] \in {"ok", "err"} \/ ~srvOpen[k]
  /\ connecting' = [connecting EXCEPT ![c] = 0]
  /\ IF hs[k] = "ok"
     THEN /\ socket' = [socket EXCEPT ![c] = k]
          /\ ret' = [ret EXCEPT ![c] = Ret("connect", "Ok", "")]
          /\ UNCHANGED cliOpen
     ELSE /\ ret' = [ret EXCEPT ![c] = Ret("connect", "SocketError", "")]
          /\ cliOpen' = [cliOpen EXCEPT ![k] = FALSE]
          /\ UNCHANGED socket
  /\ UNCHANGED <<nw, rtcall, hs, peer, srvOpen, nonblocking, rtimeout, s2c, c2s, svars, wvars, hvars>>

\* SockleClient::write.  w: what write_message reports.
write(c, w) ==
  LET k == socket[c] IN
  /\ connecting[c] = 0
  /\ IF ~error_if_closed(c) THEN Rejected(c, "write", "Disconnected")
     ELSE /\ nw[k] < MaxWrites
          /\ CanWrite(k, w)
          /\ ret' = [ret EXCEPT ![c] =
                       IF w = "ok" THEN Ret("write", "Ok", "") ELSE Ret("write", map_error(w), w)]
          /\ c2s' = [c2s EXCEPT ![k] =
                       IF w = "ok" /\ Carried(k) THEN Append(@, ClientTexts[nw[k] + 1]) ELSE @]
          /\ nw' = [nw EXCEPT ![k] = @ + 1]
          /\ UNCHANGED <<socket, connecting, rtcall, hs, peer, cliOpen, srvOpen, nonblocking,
                         rtimeout, s2c, svars, wvars, hvars>>

\* ping as it would be without the error_if_closed check: a ping on a closed
\* session reports success.
ping_unchecked(c, w) ==
  LET k == socket[c] IN
  /\ connecting[c] = 0
  /\ IF ~error_if_closed(c) THEN Rejected(c, "ping", "Ok")
     ELSE /\ Len(c2s[k]) < MaxOut
          /\ CanWrite(k, w)
          /\ ret' = [ret EXCEPT ![c] =
                       IF w = "ok" THEN Ret("ping", "Ok", "") ELSE Ret("ping", "Transport", w)]
          /\ c2s' = [c2s EXCEPT ![k] = IF w = "ok" /\ Carried(k) THEN Append(@, "PING") ELSE @]
          /\ UNCHANGED <<socket, connecting, nw, rtcall, hs, peer, cliOpen, srvOpen, nonblocking,
                         rtimeout, s2c, svars, wvars, hvars>>

\* SockleClient::ping: the transport's error is returned as it is (no map_error).
ping(c, w) ==
  LET k == socket[c] IN
  /\ connecting[c] = 0
  /\ IF ~error_if_closed(c) THEN Rejected(c, "ping", "Disconnected")
     ELSE /\ Len(c2s[k]) < MaxOut
          /\ CanWrite(k, w)
          /\ ret' = [ret EXCEPT ![c] =
                       IF w = "ok" THEN Ret("ping", "Ok", "") ELSE Ret("ping", "Transport", w)]
          /\ c2s' = [c2s EXCEPT ![k] = IF w = "ok" /\ Carried(k) THEN Append(@, "PING") ELSE @]
          /\ UNCHANGED <<socket, connecting, nw, rtcall, hs, peer, cliOpen, srvOpen, nonblocking,
                         rtimeout, s2c, svars, wvars, hvars>>

\* The texts a read returned are recorded per connection.
Observe(k, r) ==
  got' = [got EXCEPT ![k] = IF r.res \in {"Ok", "Some"} THEN Append(@, r.val) ELSE @]

\* set_non_blocking(false) after the read of try_read, as the code does it:
\* only when the read's result is Ok.
try_read_restores(r) == r.res \in {"Some", "None"}

\* SockleClient::try_read.
try_read(c, eof, tk, sent) ==
  LET k == socket[c] IN
  /\ connecting[c] = 0
  /\ IF ~error_if_closed(c) THEN Rejected(c, "try_read", "Disconnected")
     ELSE LET r == read_and_wrap_by_error_kind(
                     read_message(s2c[k], srvOpen[k], TRUE, rtimeout[k], eof, tk),
                     {"WouldBlock"}) IN
          /\ r.closed \/ sent = "ok"
          /\ CanWrite(k, sent)
          /\ ClientEffect(c, k, Ret("try_read", r.res, r.val), r.rest, r.closed, sent,
                          IF try_read_restores(r) THEN FALSE ELSE TRUE, rtimeout[k])
          /\ Observe(k, r)
          /\ UNCHANGED <<connecting, nw, rtcall, hs, peer, svars, wvars,
                         wrote, due, sendLog, shut>>

\* SockleClient::read: enabled when the blocking call returns.
read(c, eof, tk, sent) ==
  LET k == socket[c] IN
  /\ connecting[c] = 0
  /\ IF ~error_if_closed(c) THEN Rejected(c, "read", "Disconnected")
     ELSE LET r == read_message(s2c[k], srvOpen[k], nonblocking[k], rtimeout[k], eof, tk) IN
          /\ r.res # "Block"
          /\ r.closed \/ sent = "ok"
          /\ CanWrite(k, sent)
          /\ ClientEffect(c, k, Ret("read", r.res, r.val), r.rest, r.closed, sent,
                          nonblocking[k], rtimeout[k])
          /\ Observe(k, r)
          /\ UNCHANGED <<connecting, nw, rtcall, hs, peer, svars, wvars,
                         wrote, due, sendLog, shut>>

\* read_timeout as it would be if the timeout were cleared only with a message.
read_timeout_clears_on_message(r) == r.res = "Some"

\* set_timeout(None) after the read of read_timeout: only when the result is Ok.
read_timeout_clears(r) == r.res \in {"Some", "None"}

\* SockleClient::read_timeout.
read_timeout(c, eof, tk, sent) ==
  LET k == socket[c] IN
  /\ connecting[c] = 0
  /\ IF ~error_if_closed(c) THEN Rejected(c, "read_timeout", "Disconnected")
     ELSE LET r == read_and_wrap_by_error_kind(
                     read_message(s2c[k], srvOpen[k], nonblocking[k], TRUE, eof, tk),
                     {"WouldBlock", "TimedOut"}) IN
          /\ r.closed \/ sent = "ok"
          /\ CanWrite(k, sent)
          /\ ClientEffect(c, k, Ret("read_timeout", r.res, r.val), r.rest, r.closed, sent,
                          nonblocking[k], IF read_timeout_clears(r) THEN FALSE ELSE TRUE)
          /\ Observe(k, r)
          /\ UNCHANGED <<connecting, nw, rtcall, hs, peer, svars, wvars,
                         wrote, due, sendLog, shut>>

\* ---------------------------------------- read_timeout as time passes
\* SockleClient::read_timeout, the call: error_if_closed, set_timeout(Some(timeout)),
\* then read_and_wrap_by_error_kind enters SimpleSockleClient::read_message.
read_timeout_call(c, timeout) ==
  LET k == socket[c] IN
  /\ connecting[c] = 0 /\ rtcall[c].pc = "idle"
  /\ IF ~error_if_closed(c) THEN Rejected(c, "read_timeout", "Disconnected")
     ELSE /\ rtimeout' = [rtimeout EXCEPT ![k] = TRUE]
          /\ rtcall' = [rtcall EXCEPT ![c] =
                          [pc |-> "recv", timeout |-> timeout, elapsed |-> 0, waited |-> 0]]
          /\ ret' = [ret EXCEPT ![c] = Ret("read_timeout", "Pending", "")]
          /\ UNCHANGED <<socket, connecting, nw, hs, peer, cliOpen, srvOpen, nonblocking,
                         s2c, c2s, svars, wvars, hvars>>

\* One unit of time passes while socket.read_message() blocks: nothing to read,
\* the peer alive, the stream blocking and its read timeout not yet elapsed.
read_timeout_wait(c) ==
  LET k == socket[c] IN
  /\ rtcall[c].pc = "recv"
  /\ s2c[k] = <<>> /\ srvOpen[k] /\ ~nonblocking[k]
  /\ rtcall[c].waited < rtcall[c].timeout
  /\ rtcall[c].elapsed < MaxElapsed
  /\ rtcall' = [rtcall EXCEPT ![c].elapsed = @ + 1, ![c].waited = @ + 1]
  /\ UNCHANGED <<socket, connecting, ret, nw, tvars, svars, wvars, hvars>>

\* One iteration of the loop of SimpleSockleClient::read_message inside
\* read_timeout: socket.read_message() returns a frame, an error, or the io error of
\* the stream's read timeout, which limits each socket read on its own.  A
\* skipped frame (binary, ping, pong) is logged and the loop calls
\* socket.read_message() again: the stream waits the full timeout anew.  Anything
\* else ends the call as read_timeout ends it.
read_timeout_recv(c, eof, tk, sent) ==
  LET k == socket[c]
      expired == rtcall[c].waited = rtcall[c].timeout
      f == socket_read(s2c[k], srvOpen[k], nonblocking[k], expired, eof, tk)
  IN
  /\ rtcall[c].pc = "recv"
  /\ f.kind # "block"
  /\ IF f.kind = "msg" /\ f.v \in Skipped
     THEN /\ s2c' = [s2c EXCEPT ![k] = f.rest]
          /\ rtcall' = [rtcall EXCEPT ![c].waited = 0]
          /\ sent = "ok"
          /\ UNCHANGED <<socket, connecting, ret, nw, hs, peer, cliOpen, srvOpen, nonblocking,
                         rtimeout, c2s, svars, wvars, hvars>>
     ELSE LET r == read_and_wrap_by_error_kind(
                     read_message(s2c[k], srvOpen[k], nonblocking[k], expired, eof, tk),
                     {"WouldBlock", "TimedOut"}) IN
          /\ r.closed \/ sent = "ok"
          /\ CanWrite(k, sent)
          /\ ClientEffect(c, k, Ret("read_timeout", r.res, r.val), r.rest, r.closed, sent,
                          nonblocking[k], IF read_timeout_clears(r) THEN FALSE ELSE TRUE)
          /\ Observe(k, r)
          /\ rtcall' = [rtcall EXCEPT ![c].pc = "idle"]
          /\ UNCHANGED <<connecting, nw, hs, peer, svars, wvars, wrote, due, sendLog, shut>>

\* close as it would be if a close timeout returned before the session is discarded.
close_keeps_on_timeout(c, sent, wait) ==
  LET k == socket[c] IN
  /\ connecting[c] = 0
  /\ IF ~error_if_closed(c)
     THEN /\ wait = "error" /\ sent = "ok"
          /\ Rejected(c, "close", "Ok")
     ELSE /\ CanWrite(k, sent)
          /\ ClientEffect(c, k, Ret("close", close_socket_result(sent, wait), ""),
                          s2c[k], close_socket_result(sent, wait) = "Ok", sent,
                          nonblocking[k], rtimeout[k])
          /\ UNCHANGED <<connecting, nw, rtcall, hs, peer, svars, wvars, hvars>>

\* SockleClient::close.
close(c, sent, wait) ==
  LET k == socket[c] IN
  /\ connecting[c] = 0
  /\ IF ~error_if_closed(c)
     THEN /\ wait = "error" /\ sent = "ok"
          /\ Rejected(c, "close", "Ok")
     ELSE /\ CanWrite(k, sent)
          /\ ~client_close_waits(wait # "error", wait = "ceiling")
          /\ ClientEffect(c, k, Ret("close", close_socket_result(sent, wait), ""),
                          s2c[k], TRUE, sent, FALSE, FALSE)
          /\ UNCHANGED <<connecting, nw, rtcall, hs, peer, svars, wvars, hvars>>

\* ------------------------------------------- the peer, as an environment
\* The far end of a client session when only the session is studied: it
\* completes or fails the handshake, sends any frame, goes away.
EnvHandshake(k, ok) ==
  /\ hs[k] = "backlog" /\ peer[k] = 0
  /\ hs' = [hs EXCEPT ![k] = IF ok THEN "ok" ELSE "err"]
  /\ srvOpen' = [srvOpen EXCEPT ![k] = ok]
  /\ UNCHANGED <<cvars, peer, cliOpen, nonblocking, rtimeout, s2c, c2s, svars, wvars, hvars>>

EnvDeliver(k, f) ==
  /\ hs[k] = "ok" /\ peer[k] = 0 /\ srvOpen[k] /\ cliOpen[k]
  /\ Len(s2c[k]) < MaxInbox
  /\ f \in Texts => \A i \in 1..Len(s2c[k]) : s2c[k][i] # f
  /\ f \in Texts => \A i \in 1..Len(got[k]) : got[k][i] # f
  /\ s2c' = [s2c EXCEPT ![k] = Append(@, f)]
  /\ UNCHANGED <<cvars, hs, peer, cliOpen, srvOpen, nonblocking, rtimeout, c2s, svars, wvars, hvars>>

EnvPeerDrop(k) ==
  /\ hs[k] = "ok" /\ peer[k] = 0 /\ srvOpen[k]
  /\ srvOpen' = [srvOpen EXCEPT ![k] = FALSE]
  /\ UNCHANGED <<cvars, hs, peer, cliOpen, nonblocking, rtimeout, s2c, c2s, svars, wvars, hvars>>

EnvFrames == {"s1", "PING", "CLOSE", "BAD"}

\* The outcomes the transport can report to client c in its present state.
EofChoice(c) ==
  IF socket[c] # 0 /\ ~srvOpen[socket[c]] THEN EofKinds ELSE {"Protocol"}
WriteChoice(c) ==
  IF socket[c] # 0 /\ ~srvOpen[socket[c]] THEN WriteKinds ELSE {"ok"}
TimeoutChoice(c) ==
  IF socket[c] # 0 /\ rtimeout[socket[c]] THEN TimeoutKinds ELSE {"WouldBlock"}
WaitChoice(c) ==
  IF socket[c] # 0 THEN {"error", "ceiling"} ELSE {"error"}

\* One client session against an arbitrary peer.
Solo == CHOOSE c \in Clients : \A d \in Clients : c <= d

NextClient ==
  \/ \E u \in Urls, reach \in BOOLEAN : connect_start(Solo, u, reach, 0)
  \/ connect_finish(Solo)
  \/ \E w \in WriteChoice(Solo) : write(Solo, w)
  \/ \E w \in WriteChoice(Solo) : ping(Solo, w)
  \/ \E e \in EofChoice(Solo), tk \in TimeoutChoice(Solo), s \in WriteChoice(Solo) :
        try_read(Solo, e, tk, s)
  \/ \E e \in EofChoice(Solo), tk \in TimeoutChoice(Solo), s \in WriteChoice(Solo) :
        read(Solo, e, tk, s)
  \/ \E e \in EofChoice(Solo), tk \in TimeoutKinds, s \in WriteChoice(Solo) :
        read_timeout(Solo, e, tk, s)
  \/ \E s \in WriteChoice(Solo), wt \in WaitChoice(Solo) : close(Solo, s, wt)
  \/ \E k \in Conns, ok \in BOOLEAN : EnvHandshake(k, ok)
  \/ \E k \in Conns, f \in EnvFrames : EnvDeliver(k, f)
  \/ \E k \in Conns : EnvPeerDrop(k)

SpecClient == Init /\ [][NextClient]_vars

\* The frames a peer sends to a client that waits in read_timeout.
TimeoutFrames == Skipped \cup {"s1"}

\* One client session that connects and calls read_timeout while time passes
\* and its peer sends frames when it likes.
NextTimeout ==
  \/ \E u \in Addrs : rtcall[Solo].pc = "idle" /\ connect_start(Solo, u, TRUE, 0)
  \/ connect_finish(Solo)
  \/ \E timeout \in 1..MaxTimeout : read_timeout_call(Solo, timeout)
  \/ read_timeout_wait(Solo)
  \/ \E e \in EofChoice(Solo), tk \in TimeoutKinds, s \in WriteChoice(Solo) :
        read_timeout_recv(Solo, e, tk, s)
  \/ \E k \in Conns, ok \in BOOLEAN : EnvHandshake(k, ok)
  \/ \E k \in Conns, f \in TimeoutFrames : EnvDeliver(k, f)
  \/ \E k \in Conns : EnvPeerDrop(k)

SpecTimeout == Init /\ [][NextTimeout]_vars

\* ============================================================ SERVER
\* The callbacks a caller of listen can pass: the tests' |_, _| Ok(()) and echo,
\* one that enqueues two replies, one that enqueues a reply and then fails.
CbKinds == {"noop", "echo", "twice", "fail"}

\* The application callback (OnMessageFn): what it pushes through its enqueue
\* argument and whether it returns Ok.
Callback(cb, m) ==
  CASE cb = "noop" -> [ok |-> TRUE, replies |-> <<>>]
    [] cb = "echo" -> [ok |-> TRUE, replies |-> <<m>>]
    [] cb = "twice" -> [ok |-> TRUE, replies |-> <<m, "ack">>]
    [] OTHER -> [ok |-> FALSE, replies |-> <<m>>]

\* A worker thread exists; its Conn (socket and control receiver) exists.
Live(k) == wpc[k] \in {"accept", "register", "read", "ctrl", "flush"}
Running(k) == wpc[k] \in {"read", "ctrl", "flush"}

\* SockleServer::connection_count.
connection_count == Len(thread_senders)

Registered == {thread_senders[i] : i \in 1..Len(thread_senders)}

\* The registry (Arc<Mutex<Vec<Sender>>>) lives while someone holds a clone:
\* the server value, an accept loop (senders), a worker thread (senders2).
RegistryHeld ==
  \/ ~dropped
  \/ \E l \in Listeners : lpc[l] = "run"
  \/ \E k \in Conns : Live(k)

\* The accept loops bound to an address.
Bound(a) == {l \in Listeners : lpc[l] = "run" /\ laddr[l] = a}
FreeListeners == {l \in Listeners : lpc[l] = "none"}
NewListener == CHOOSE l \in FreeListeners : \A j \in FreeListeners : l <= j

\* SockleServer::listen: bind, replace thread_ctrl by a new channel, spawn the
\* accept loop.  The sender of the channel it replaces is dropped.
listen(a, cb) ==
  /\ spc = "idle" /\ ~dropped
  /\ IF Bound(a) # {}
     THEN /\ sret' = Ret("listen", "BindError", "")
          /\ UNCHANGED <<thread_ctrl, on_message, lpc, laddr>>
     ELSE /\ FreeListeners # {}
          /\ sret' = Ret("listen", "Ok", "")
          /\ thread_ctrl' = NewListener
          /\ on_message' = [on_message EXCEPT ![NewListener] = cb]
          /\ lpc' = [lpc EXCEPT ![NewListener] = "run"]
          /\ laddr' = [laddr EXCEPT ![NewListener] = a]
  /\ UNCHANGED <<thread_senders, dropped, lsig, spc, nsend, nshut, cvars, tvars, wvars, hvars>>

\* The connections waiting in accept loop l's listener, in arrival order.
Backlog(l) == {k \in Conns : hs[k] = "backlog" /\ peer[k] = l}

\* One iteration of the accept loop: server.incoming() yields the oldest pending
\* stream (a worker thread is spawned for it) or WouldBlock (sleep); then
\* thread_ctrl_r.try_recv() ends the loop on Ok(_) or Disconnected.  When the
\* loop ends the listener is dropped with what it had not accepted.
accept_loop(l) ==
  /\ lpc[l] = "run"
  /\ LET B == Backlog(l)
         taken == {k \in B : \A j \in B : k <= j}
         stop == lsig[l] \/ thread_ctrl # l \/ dropped
         reset == IF stop THEN B \ taken ELSE {}
     IN /\ hs' = [k \in Conns |-> IF k \in taken THEN "spawned"
                                  ELSE IF k \in reset THEN "err" ELSE hs[k]]
        /\ wpc' = [k \in Conns |-> IF k \in taken THEN "accept" ELSE wpc[k]]
        /\ srvOpen' = [k \in Conns |-> IF k \in reset THEN FALSE ELSE srvOpen[k]]
        /\ lpc' = [lpc EXCEPT ![l] = IF stop THEN "ended" ELSE "run"]
        /\ lsig' = [lsig EXCEPT ![l] = FALSE]
  /\ UNCHANGED <<cvars, peer, cliOpen, nonblocking, rtimeout, s2c, c2s, thread_ctrl,
                 thread_senders, on_message, dropped, laddr, spc, sret, nsend, nshut,
                 ctrl, q, hvars>>

\* The worker thread's tungstenite::accept(s): the handshake, which answers the
\* client before anything is registered.
worker_accept(k, ok) ==
  /\ wpc[k] = "accept"
  /\ hs' = [hs EXCEPT ![k] = IF ok THEN "ok" ELSE "err"]
  /\ wpc' = [wpc EXCEPT ![k] = IF ok THEN "register" ELSE "done"]
  /\ srvOpen' = [srvOpen EXCEPT ![k] = ok]
  /\ UNCHANGED <<cvars, peer, cliOpen, nonblocking, rtimeout, s2c, c2s, svars, ctrl, q, hvars>>

\* The worker thread as it would be if it kept its sender to itself.
worker_register_private(k) ==
  /\ wpc[k] = "register"
  /\ thread_senders' = thread_senders
  /\ wpc' = [wpc EXCEPT ![k] = "read"]
  /\ UNCHANGED <<cvars, tvars, thread_ctrl, on_message, dropped, lpc, laddr, lsig, spc, sret,
                 nsend, nshut, ctrl, q, hvars>>

\* The worker thread's registration: lock, channel(), push(sender); then
\* Conn::new and the start of on_accept (set_read_timeout of 15 ms).
worker_register(k) ==
  /\ wpc[k] = "register"
  /\ thread_senders' = Append(thread_senders, k)
  /\ wpc' = [wpc EXCEPT ![k] = "read"]
  /\ UNCHANGED <<cvars, tvars, thread_ctrl, on_message, dropped, lpc, laddr, lsig, spc, sret,
                 nsend, nshut, ctrl, q, hvars>>

TextsOf(fs) == SelectSeq(fs, LAMBDA f : f \in Texts)

\* What a write on the worker's stream can report.
ConnCanWrite(k, w) == cliOpen[k] => w = "ok"

\* The state a worker step leaves behind.  When the worker ends (pc2 = "done")
\* its Conn is dropped: the stream, the control receiver, the reply queue.
WorkerEffect(k, pc2, inRest, out, ctrl2, q2, dueAdd) ==
  /\ wpc' = [wpc EXCEPT ![k] = pc2]
  /\ c2s' = [c2s EXCEPT ![k] = IF pc2 = "done" THEN <<>> ELSE inRest]
  /\ s2c' = [s2c EXCEPT ![k] = IF cliOpen[k] THEN @ \o out ELSE @]
  /\ wrote' = [wrote EXCEPT ![k] = @ \o TextsOf(out)]
  /\ ctrl' = [ctrl EXCEPT ![k] = IF pc2 = "done" THEN <<>> ELSE ctrl2]
  /\ q' = [q EXCEPT ![k] = IF pc2 = "done" THEN <<>> ELSE q2]
  /\ due' = [due EXCEPT ![k] = @ \o dueAdd]
  /\ srvOpen' = [srvOpen EXCEPT ![k] = pc2 # "done"]
  /\ UNCHANGED <<cvars, hs, peer, cliOpen, nonblocking, rtimeout, svars, got, sendLog, shut>>

\* Conn::close_socket, the condition of its wait loop:
\* `self.socket.write_pending().is_ok() && timeout < Instant::now()`.
Conn_close_waits(pending, elapsed) == pending /\ elapsed

\* Conn::close_socket, the frames it puts on the wire: socket.close(cf) with its
\* result ignored.  The wait loop's condition, write_pending().is_ok() &&
\* timeout < Instant::now(), is false when first evaluated (timeout lies 10 s
\* ahead), so the loop body never runs and the caller returns at once.
Conn_close_socket(w) == IF w = "ok" THEN <<"CLOSE">> ELSE <<>>

\* Where the worker is when Conn::close_socket has evaluated its loop condition
\* for the first time (write_pending Ok, timeout not elapsed).
Conn_closed == IF Conn_close_waits(TRUE, FALSE) THEN "closing" ELSE "done"

\* Conn::on_message as it would be if the replies enqueued by a failed callback
\* were flushed all the same.
Conn_on_message_flush_anyway(k, f, rest, w) ==
  IF f \in Texts
  THEN LET cb == Callback(on_message[peer[k]], f) IN
       WorkerEffect(k, IF cb.replies = <<>> THEN "ctrl" ELSE "flush", rest, <<>>,
                    ctrl[k], cb.replies, cb.replies)
  ELSE IF f = "BIN"
  THEN WorkerEffect(k, "done", rest, <<>>, <<>>, <<>>, <<>>)
  ELSE IF f = "CLOSE"
  THEN WorkerEffect(k, Conn_closed, rest, Conn_close_socket(w), <<>>, <<>>, <<>>)
  ELSE WorkerEffect(k, "ctrl", rest, <<>>, ctrl[k], <<>>, <<>>)

\* Conn::on_message up to the flush loop.
Conn_on_message(k, f, rest, w) ==
  IF f \in Texts
  THEN LET cb == Callback(on_message[peer[k]], f) IN
       IF ~cb.ok
       THEN WorkerEffect(k, Conn_closed, rest, Conn_close_socket(w), <<>>, <<>>, <<>>)
       ELSE WorkerEffect(k, IF cb.replies = <<>> THEN "ctrl" ELSE "flush", rest, <<>>,
                         ctrl[k], cb.replies, cb.replies)
  ELSE IF f = "BIN"
  THEN WorkerEffect(k, "done", rest, <<>>, <<>>, <<>>, <<>>)
  ELSE IF f = "CLOSE"
  THEN WorkerEffect(k, Conn_closed, rest, Conn_close_socket(w), <<>>, <<>>, <<>>)
  ELSE WorkerEffect(k, "ctrl", rest, <<>>, ctrl[k], <<>>, <<>>)

\* Conn::on_accept, the first half of a loop iteration: socket.read_message()
\* bounded by the 15 ms read timeout.
on_accept_read(k, w) ==
  /\ wpc[k] = "read"
  /\ ConnCanWrite(k, w)
  /\ LET r == socket_read(c2s[k], cliOpen[k], FALSE, TRUE, "Protocol", "WouldBlock") IN
     IF r.kind = "msg" THEN Conn_on_message(k, r.v, r.rest, w)
     ELSE IF r.v \in TimeoutKinds
     THEN WorkerEffect(k, "ctrl", r.rest, <<>>, ctrl[k], <<>>, <<>>)
     ELSE WorkerEffect(k, Conn_closed, r.rest, Conn_close_socket(w), <<>>, <<>>, <<>>)

\* The flush loop as it would be if it wrote one reply and left the rest queued.
on_message_flush_once(k, w) ==
  /\ wpc[k] = "flush"
  /\ ConnCanWrite(k, w)
  /\ IF w = "ok"
     THEN WorkerEffect(k, "ctrl", c2s[k], <<Head(q[k])>>, ctrl[k], Tail(q[k]), <<>>)
     ELSE WorkerEffect(k, Conn_closed, c2s[k], Conn_close_socket(w), <<>>, <<>>, <<>>)

\* Conn::on_message, one iteration of the flush loop: pop_front, write_message.
on_message_flush(k, w) ==
  /\ wpc[k] = "flush"
  /\ ConnCanWrite(k, w)
  /\ IF w = "ok"
     THEN WorkerEffect(k, IF Tail(q[k]) = <<>> THEN "ctrl" ELSE "flush", c2s[k],
                       <<Head(q[k])>>, ctrl[k], Tail(q[k]), <<>>)
     ELSE WorkerEffect(k, Conn_closed, c2s[k], Conn_close_socket(w), <<>>, <<>>, <<>>)

\* try_recv as it would be if a queued Shutdown overtook the Sends ahead of it.
try_recv_shutdown_first(k) ==
  IF \E i \in 1..Len(ctrl[k]) : ctrl[k][i] = "SHUTDOWN" THEN "SHUTDOWN"
  ELSE IF ctrl[k] # <<>> THEN Head(ctrl[k])
  ELSE IF ~RegistryHeld THEN "Disconnected"
  ELSE "Empty"

\* self.ctrl.try_recv() of a worker.
try_recv(k) ==
  IF ctrl[k] # <<>> THEN Head(ctrl[k])
  ELSE IF ~RegistryHeld THEN "Disconnected"
  ELSE "Empty"

\* Conn::on_accept, the second half of a loop iteration: one control message.
on_accept_ctrl(k, w) ==
  /\ wpc[k] = "ctrl"
  /\ ConnCanWrite(k, w)
  /\ LET m == try_recv(k) IN
     IF m = "Empty"
     THEN WorkerEffect(k, "read", c2s[k], <<>>, ctrl[k], <<>>, <<>>)
     ELSE IF m \in {"SHUTDOWN", "Disconnected"}
     THEN WorkerEffect(k, Conn_closed, c2s[k], Conn_close_socket(w), <<>>, <<>>, <<>>)
     ELSE IF w = "ok"
     THEN WorkerEffect(k, "read", c2s[k], <<m>>, Tail(ctrl[k]), <<>>, <<m>>)
     ELSE WorkerEffect(k, "done", c2s[k], <<>>, <<>>, <<>>, <<>>)

\* The loop over the registry as it would be if it stopped after its first entry.
sender_send_first(k, msg) ==
  IF thread_senders # <<>> /\ k = Head(thread_senders) /\ Running(k)
  THEN Append(ctrl[k], msg) ELSE ctrl[k]

\* s.send(msg) on one entry of the registry: an error (receiver gone) is ignored.
sender_send(k, msg) ==
  IF k \in Registered /\ Running(k) THEN Append(ctrl[k], msg) ELSE ctrl[k]

\* SockleServer::send as it would be if it gave up at the first sender whose
\* receiver is gone (`s.send(..)?` in place of `let _ = s.send(..)`).
send_until_error ==
  /\ spc = "idle" /\ ~dropped
  /\ nsend < MaxSends
  /\ ctrl' = [k \in Conns |->
               IF \E i \in 1..Len(thread_senders) :
                    /\ thread_senders[i] = k
                    /\ \A h \in 1..i : Running(thread_senders[h])
               THEN Append(ctrl[k], SendTexts[nsend + 1]) ELSE ctrl[k]]
  /\ nsend' = nsend + 1
  /\ sret' = Ret("send", "Ok", SendTexts[nsend + 1])
  /\ sendLog' = Append(sendLog, [reg |-> {k \in Registered : Running(k)},
                                 conn |-> {k \in Conns : \E c \in Clients : socket[c] = k}])
  /\ UNCHANGED <<cvars, tvars, thread_ctrl, thread_senders, on_message, dropped, lpc, laddr,
                 lsig, spc, nshut, wpc, q, got, wrote, due, shut>>

\* SockleServer::send.
send ==
  /\ spc = "idle" /\ ~dropped
  /\ nsend < MaxSends
  /\ ctrl' = [k \in Conns |-> sender_send(k, SendTexts[nsend + 1])]
  /\ nsend' = nsend + 1
  /\ sret' = Ret("send", "Ok", SendTexts[nsend + 1])
  /\ sendLog' = Append(sendLog, [reg |-> {k \in Registered : Running(k)},
                                 conn |-> {k \in Conns : \E c \in Clients : socket[c] = k}])
  /\ UNCHANGED <<cvars, tvars, thread_ctrl, thread_senders, on_message, dropped, lpc, laddr,
                 lsig, spc, nshut, wpc, q, got, wrote, due, shut>>

\* SockleServer::shutdown, the loop over the registry.
shutdown_broadcast ==
  /\ spc = "idle" /\ ~dropped
  /\ nshut < MaxShutdowns
  /\ ctrl' = [k \in Conns |-> sender_send(k, "SHUTDOWN")]
  /\ spc' = "signal"
  /\ nshut' = nshut + 1
  /\ shut' = [called |-> TRUE,
              live |-> {k \in Conns : wpc[k] \in {"register", "read", "ctrl", "flush"}},
              conn |-> {k \in Conns : \E c \in Clients : socket[c] = k},
              reg |-> {k \in Registered : Running(k)}]
  /\ UNCHANGED <<cvars, tvars, thread_ctrl, thread_senders, on_message, dropped, lpc, laddr,
                 lsig, sret, nsend, wpc, q, got, wrote, due, sendLog>>

\* shutdown as it would be if the result of the first tc.send(()) were ignored.
shutdown_signal_unchecked ==
  /\ spc = "signal"
  /\ IF thread_ctrl = 0
     THEN /\ sret' = Ret("shutdown", "Panic", "")
          /\ spc' = "idle"
          /\ dropped' = TRUE
          /\ UNCHANGED lsig
     ELSE /\ lsig' = [lsig EXCEPT ![thread_ctrl] = lpc[thread_ctrl] = "run"]
          /\ spc' = "wait"
          /\ UNCHANGED <<sret, dropped>>
  /\ UNCHANGED <<cvars, tvars, thread_ctrl, thread_senders, on_message, lpc, laddr,
                 nsend, nshut, wvars, hvars>>

\* SockleServer::shutdown, thread_ctrl.as_ref().unwrap() and the first tc.send(()).
shutdown_signal ==
  /\ spc = "signal"
  /\ IF thread_ctrl = 0
     THEN /\ sret' = Ret("shutdown", "Panic", "")
          /\ spc' = "idle"
          /\ dropped' = TRUE
          /\ UNCHANGED lsig
     ELSE IF lpc[thread_ctrl] = "ended"
     THEN /\ sret' = Ret("shutdown", "Err", "")
          /\ spc' = "idle"
          /\ UNCHANGED <<lsig, dropped>>
     ELSE /\ lsig' = [lsig EXCEPT ![thread_ctrl] = TRUE]
          /\ spc' = "wait"
          /\ UNCHANGED <<sret, dropped>>
  /\ UNCHANGED <<cvars, tvars, thread_ctrl, thread_senders, on_message, lpc, laddr,
                 nsend, nshut, wvars, hvars>>

\* The wait loop as it would be if it ended without the accept loop having
\* dropped its receiver.
shutdown_wait_one_round ==
  /\ spc = "wait"
  /\ spc' = "idle"
  /\ sret' = Ret("shutdown", "Ok", "")
  /\ UNCHANGED <<cvars, tvars, thread_ctrl, thread_senders, on_message, dropped, lpc, laddr,
                 lsig, nsend, nshut, wvars, hvars>>

\* shutdown as it would be if it emptied the registry once the accept loop has
\* ended.
shutdown_wait_clears_registry ==
  /\ spc = "wait"
  /\ lpc[thread_ctrl] = "ended"
  /\ spc' = "idle"
  /\ sret' = Ret("shutdown", "Ok", "")
  /\ thread_senders' = <<>>
  /\ UNCHANGED <<cvars, tvars, thread_ctrl, on_message, dropped, lpc, laddr,
                 lsig, nsend, nshut, wvars, hvars>>

\* SockleServer::shutdown, the loop `while let Ok(_) = tc.send(())`: it ends
\* when the accept loop has dropped its receiver.
shutdown_wait ==
  /\ spc = "wait"
  /\ lpc[thread_ctrl] = "ended"
  /\ spc' = "idle"
  /\ sret' = Ret("shutdown", "Ok", "")
  /\ UNCHANGED <<cvars, tvars, thread_ctrl, thread_senders, on_message, dropped, lpc, laddr,
                 lsig, nsend, nshut, wvars, hvars>>

\* The owner drops the SimpleSockleServer value: thread_ctrl's sender and the
\* owner's clone of the registry go with it.
drop ==
  /\ spc = "idle" /\ ~dropped
  /\ dropped' = TRUE
  /\ UNCHANGED <<cvars, tvars, thread_ctrl, thread_senders, on_message, lpc, laddr, lsig, spc,
                 sret, nsend, nshut, wvars, hvars>>

\* A client's connect() against this server: the TCP connect reaches the accept
\* loop bound to the url's address, if there is one.
client_connect(c, u) ==
  /\ socket[c] = 0 /\ connecting[c] = 0
  /\ IF Bound(u) = {} THEN connect_start(c, u, FALSE, 0)
     ELSE \E l \in Bound(u) : connect_start(c, u, TRUE, l)

\* The calls a connected client makes.
client_write(c) == socket[c] # 0 /\ \E w \in WriteChoice(c) : write(c, w)
client_read(c) ==
  /\ socket[c] # 0
  /\ \E e \in EofChoice(c), tk \in TimeoutChoice(c), s \in WriteChoice(c) : read(c, e, tk, s)

\* The one listen() call of a server that is used as the tests use it.
first_listen(a, cb) == thread_ctrl = 0 /\ listen(a, cb)

\* The threads of the server: accept loops and workers.
ServerThreads ==
  \/ \E l \in Listeners : accept_loop(l)
  \/ \E k \in Conns, ok \in BOOLEAN : worker_accept(k, ok)
  \/ \E k \in Conns : worker_register(k)
  \/ \E k \in Conns, w \in WriteKinds : on_accept_read(k, w)
  \/ \E k \in Conns, w \in WriteKinds : on_accept_ctrl(k, w)

\* Clients that connect and read (lib.rs, tests::broadcast).
ReadingClients ==
  \/ \E c \in Clients, u \in Addrs : client_connect(c, u)
  \/ \E c \in Clients : connect_finish(c)
  \/ \E c \in Clients : client_read(c)

\* Every thread that can run gets to run; a connect() in progress and a read()
\* that has something to return do return.
ThreadFairness ==
  /\ \A l \in Listeners : WF_vars(accept_loop(l))
  /\ \A k \in Conns : WF_vars(\E ok \in BOOLEAN : worker_accept(k, ok))
  /\ \A k \in Conns : WF_vars(worker_register(k))
  /\ \A k \in Conns : WF_vars(\E w \in WriteKinds : on_accept_read(k, w))
  /\ \A k \in Conns : WF_vars(\E w \in WriteKinds : on_accept_ctrl(k, w))
  /\ \A c \in Clients : WF_vars(connect_finish(c))
  /\ \A c \in Clients : WF_vars(client_read(c))

\* A server that listens and broadcasts to clients that connect and read.
NextBroadcast ==
  \/ \E a \in Addrs : first_listen(a, "noop")
  \/ send
  \/ ServerThreads
  \/ ReadingClients

SpecBroadcast == Init /\ [][NextBroadcast]_vars
FairBroadcast == SpecBroadcast /\ ThreadFairness

\* A server that listens and is shut down, with clients that connect and read.
NextShutdown ==
  \/ \E a \in Addrs : first_listen(a, "noop")
  \/ shutdown_broadcast
  \/ shutdown_signal
  \/ shutdown_wait
  \/ ServerThreads
  \/ ReadingClients

SpecShutdown == Init /\ [][NextShutdown]_vars
FairShutdown ==
  /\ SpecShutdown
  /\ ThreadFairness
  /\ WF_vars(shutdown_signal)
  /\ WF_vars(shutdown_wait)

\* The first send() call of the server.
first_send == nsend = 0 /\ send

\* A server whose callback replies, with clients that write and read
\* (lib.rs, tests::echo_server), while the server broadcasts once.
NextEcho ==
  \/ \E a \in Addrs, cb \in CbKinds : first_listen(a, cb)
  \/ first_send
  \/ ServerThreads
  \/ \E k \in Conns, w \in WriteKinds : on_message_flush(k, w)
  \/ ReadingClients
  \/ \E c \in Clients : client_write(c)

SpecEcho == Init /\ [][NextEcho]_vars

\* A server that listens, broadcasts and is shut down, with one client that
\* connects and reads.
NextControl ==
  \/ \E a \in Addrs : first_listen(a, "noop")
  \/ send
  \/ shutdown_broadcast
  \/ shutdown_signal
  \/ shutdown_wait
  \/ ServerThreads
  \/ \E u \in Addrs : client_connect(Solo, u)
  \/ connect_finish(Solo)
  \/ client_read(Solo)

SpecControl == Init /\ [][NextControl]_vars

\* A server that listens, broadcasts once and is dropped, with clients that
\* connect and read.
NextDrop ==
  \/ \E a \in Addrs : first_listen(a, "noop")
  \/ first_send
  \/ drop
  \/ ServerThreads
  \/ ReadingClients

SpecDrop == Init /\ [][NextDrop]_vars
FairDrop == SpecDrop /\ ThreadFairness

\* A connected client's close().
client_close(c) ==
  /\ socket[c] # 0
  /\ \E s \in WriteChoice(c), wt \in WaitChoice(c) : close(c, s, wt)

\* A server whose callback replies or fails, with one client that writes, reads
\* and closes when it likes.
NextReply ==
  \/ \E a \in Addrs, cb \in CbKinds : first_listen(a, cb)
  \/ ServerThreads
  \/ \E k \in Conns, w \in WriteKinds : on_message_flush(k, w)
  \/ \E u \in Addrs : client_connect(Solo, u)
  \/ connect_finish(Solo)
  \/ client_write(Solo)
  \/ client_read(Solo)
  \/ client_close(Solo)

SpecReply == Init /\ [][NextReply]_vars

\* A server that broadcasts once to two clients, one of which also writes and
\* closes, so that its worker ends by a callback error, a peer close or a
\* transport error while the other connection goes on.
NextIsolation ==
  \/ \E a \in Addrs, cb \in CbKinds : first_listen(a, cb)
  \/ first_send
  \/ ServerThreads
  \/ \E k \in Conns, w \in WriteKinds : on_message_flush(k, w)
  \/ ReadingClients
  \/ client_write(Solo)
  \/ client_close(Solo)

SpecIsolation == Init /\ [][NextIsolation]_vars

\* A server that listens, broadcasts once and is shut down, with clients that
\* connect and read: every operation that touches the registry.
NextRegistry ==
  \/ \E a \in Addrs : first_listen(a, "noop")
  \/ first_send
  \/ shutdown_broadcast
  \/ shutdown_signal
  \/ shutdown_wait
  \/ ServerThreads
  \/ ReadingClients

SpecRegistry == Init /\ [][NextRegistry]_vars

\* A server on which listen() is called whenever the caller likes, with clients
\* that connect.
NextListen ==
  \/ \E a \in Addrs : listen(a, "noop")
  \/ ServerThreads
  \/ \E c \in Clients, u \in Addrs : client_connect(c, u)
  \/ \E c \in Clients : connect_finish(c)

SpecListen == Init /\ [][NextListen]_vars

\* ===================================================== CLIENT CLAIMS
ReadOps == {"read", "try_read", "read_timeout"}

\* Nothing but skipped frames is pending and the peer is there: a receive finds
\* no message and no error.
NoDataPending(k) ==
  /\ srvOpen[k]
  /\ \A i \in 1..Len(s2c[k]) : s2c[k][i] \in Skipped

\* C4: connect() on a Connected session fails with AlreadyConnected
\* (SocketConnected) whatever the url, valid or malformed, and changes neither
\* the stored socket nor its transport; a connect() that fails for an invalid
\* url or a transport failure leaves the session Disconnected.
C4_ConnectRejectedWhenConnected ==
  [][\A c \in Clients :
       ret'[c].op = "connect" =>
       /\ \A u \in Urls, reach \in BOOLEAN, l \in 0..MaxListens :
            connect_start(c, u, reach, l) =>
              /\ socket[c] # 0 =>
                   /\ ret'[c] = Ret("connect", "SocketConnected", "")
                   /\ UNCHANGED <<socket, connecting, tvars>>
              /\ socket[c] = 0 /\ ret'[c].res \in {"InvalidUrl", "SocketError"} =>
                   /\ socket'[c] = 0
                   /\ connecting'[c] = 0
       /\ connect_finish(c) /\ ret'[c].res # "Ok" => socket'[c] = 0
    ]_vars

C4_Witness ==
  /\ ret[Solo] = Ret("connect", "SocketConnected", "")
  /\ socket[Solo] # 0

\* C5: close() on a Disconnected session returns success and changes nothing;
\* close() on a Connected session leaves it Disconnected, with Ok or with
\* CloseTimeout; so a close() right after a close() succeeds.
C5_CloseLeavesDisconnected ==
  /\ [](\A c \in Clients : ret[c].op = "close" => socket[c] = 0)
  /\ [][\A c \in Clients : \A s \in WriteKinds, wt \in {"error", "ceiling"} :
          ret'[c].op = "close" /\ close(c, s, wt) =>
            /\ socket'[c] = 0
            /\ ret'[c].op = "close"
            /\ ret'[c].res \in {"Ok", "CloseTimeout"}
            /\ socket[c] = 0 =>
                 /\ ret'[c].res = "Ok"
                 /\ UNCHANGED <<socket, connecting, nw, tvars>>
       ]_vars

C5_Witness ==
  /\ ret[Solo] = Ret("close", "CloseTimeout", "")
  /\ socket[Solo] = 0
  /\ \E k \in Conns : hs[k] = "ok" /\ ~cliOpen[k]

\* C6: write, try_read, read, read_timeout and ping on a Disconnected session
\* fail with the Disconnected error, touch no transport and leave the session
\* Disconnected.
C6_CallsOnDisconnected ==
  [][\A c \in Clients :
       socket[c] = 0 /\ ret'[c].op \in ReadOps \cup {"write", "ping"} =>
         \A e \in EofChoice(c), tk \in TimeoutChoice(c), s \in WriteChoice(c) :
           /\ write(c, s) => ret'[c] = Ret("write", "Disconnected", "")
           /\ ping(c, s) => ret'[c] = Ret("ping", "Disconnected", "")
           /\ read(c, e, tk, s) => ret'[c] = Ret("read", "Disconnected", "")
           /\ try_read(c, e, tk, s) => ret'[c] = Ret("try_read", "Disconnected", "")
           /\ read_timeout(c, e, tk, s) => ret'[c] = Ret("read_timeout", "Disconnected", "")
           /\ (write(c, s) \/ ping(c, s) \/ read(c, e, tk, s) \/ try_read(c, e, tk, s)
                 \/ read_timeout(c, e, tk, s))
               => UNCHANGED <<socket, connecting, nw, tvars>>
    ]_vars

C6_Witness ==
  /\ ret[Solo] = Ret("ping", "Disconnected", "")
  /\ socket[Solo] = 0
  /\ \E k \in Conns : hs[k] = "ok" /\ ~cliOpen[k]

\* C7: on a Connected session with no inbound data pending, try_read() makes one
\* non-blocking receive attempt and returns None: the call returns (it is never
\* left waiting), it returns no error, the session stays Connected and the
\* stream is blocking again.
C7_TryReadNone ==
  /\ [](\A c \in Clients :
          socket[c] # 0 /\ connecting[c] = 0 /\ NoDataPending(socket[c]) =>
            ENABLED try_read(c, "Protocol", "WouldBlock", "ok"))
  /\ [][\A c \in Clients :
          socket[c] # 0 /\ NoDataPending(socket[c]) /\ ret'[c].op = "try_read" =>
            \A e \in EofKinds, tk \in TimeoutKinds, s \in WriteKinds :
              try_read(c, e, tk, s) =>
                /\ ret'[c] = Ret("try_read", "None", "")
                /\ socket'[c] = socket[c]
                /\ cliOpen'[socket[c]]
                /\ ~nonblocking'[socket[c]]
                /\ s2c'[socket[c]] = <<>>
       ]_vars

C7_Witness ==
  /\ ret[Solo] = Ret("try_read", "None", "")
  /\ socket[Solo] # 0
  /\ ~nonblocking[socket[Solo]]

\* C8: after try_read() returns, on any exit path, with the session still
\* holding its socket, the stream is back in blocking mode.
C8_TryReadRestoresBlocking ==
  \A c \in Clients :
    ret[c].op = "try_read" /\ socket[c] # 0 => ~nonblocking[socket[c]]

\* C9: on a Connected session with no text arriving within the duration,
\* read_timeout(d) returns None, not an error; whenever it returns None or a
\* message the read timeout is cleared, so that a read() on the (blocking)
\* stream with nothing to read blocks.
C9_ReadTimeoutClears ==
  /\ [](\A c \in Clients :
          /\ ret[c].op = "read_timeout"
          /\ ret[c].res \in {"Some", "None"}
          /\ socket[c] # 0
          => /\ ~rtimeout[socket[c]]
             /\ ~nonblocking[socket[c]] /\ NoDataPending(socket[c]) =>
                  \A e \in EofKinds, tk \in TimeoutKinds :
                    read_message(s2c[socket[c]], srvOpen[socket[c]], nonblocking[socket[c]],
                                 rtimeout[socket[c]], e, tk).res = "Block")
  /\ [][\A c \in Clients :
          socket[c] # 0 /\ NoDataPending(socket[c]) /\ ret'[c].op = "read_timeout" =>
            \A e \in EofKinds, tk \in TimeoutKinds, s \in WriteKinds :
              read_timeout(c, e, tk, s) =>
                /\ ret'[c] = Ret("read_timeout", "None", "")
                /\ socket'[c] = socket[c]
                /\ ~rtimeout'[socket[c]]
       ]_vars

C9_Witness ==
  /\ ret[Solo] = Ret("read_timeout", "None", "")
  /\ socket[Solo] # 0
  /\ ~rtimeout[socket[Solo]]

C9_WitnessMessage ==
  /\ ret[Solo] = Ret("read_timeout", "Some", "s1")
  /\ socket[Solo] # 0
  /\ ~rtimeout[socket[Solo]]

\* C10: whenever read(), try_read() or read_timeout() ends with the Disconnected
\* error, the session is Disconnected when the call returns.
C10_DisconnectedErrorMeansDisconnected ==
  \A c \in Clients :
    ret[c].op \in ReadOps /\ ret[c].res = "Disconnected" => socket[c] = 0

\* The part of C10 the code keeps: a close frame is never returned as a message,
\* and a read that ends on a close frame leaves the session Disconnected.
C10_CloseFrameTearsDown ==
  \A c \in Clients :
    /\ ret[c].op \in ReadOps => ret[c].val # "CLOSE"
    /\ ret[c].op \in ReadOps /\ ret[c].val = "CloseFrame" => socket[c] = 0

\* ===================================================== SERVER CLAIMS
InSeq(x, sq) == \E i \in 1..Len(sq) : sq[i] = x
IsPrefix(a, b) == Len(a) <= Len(b) /\ SubSeq(b, 1, Len(a)) = a

\* The i-th send() found connection k registered, with its client connected.
SentToRegistered(k, i) ==
  /\ Len(sendLog) >= i
  /\ k \in sendLog[i].reg
  /\ k \in sendLog[i].conn

\* The i-th send() was issued after the connect() on connection k returned.
SentToConnected(k, i) ==
  /\ Len(sendLog) >= i
  /\ k \in sendLog[i].conn

\* What the reads on a connection returned came from a send(), each text once.
OnlySentTexts(k) ==
  /\ \A i \in 1..Len(got[k]) : \E j \in 1..nsend : got[k][i] = SendTexts[j]
  /\ \A i, j \in 1..Len(got[k]) : i # j => got[k][i] # got[k][j]

\* C1 (as the code has it): a send(m) issued when a connected client's
\* connection is registered (connection_count() counts it) is eventually
\* returned by that client's read() as exactly m, for every such client; reads
\* return nothing but what was sent.
C1_SendReachesRegisteredClients ==
  /\ \A k \in Conns, i \in 1..MaxSends :
        SentToRegistered(k, i) ~> InSeq(SendTexts[i], got[k])
  /\ [](\A k \in Conns : OnlySentTexts(k))

\* C1, its case: two clients, both registered when send(m) ran, and both have
\* read m.
C1_Witness ==
  /\ Len(sendLog) >= 1
  /\ \A c \in Clients :
        /\ socket[c] # 0
        /\ SentToRegistered(socket[c], 1)
        /\ got[socket[c]] = <<SendTexts[1]>>
        /\ ret[c] = Ret("read", "Ok", SendTexts[1])

\* C1 as the specification states it: a send(m) issued after a client's
\* connect() returned is eventually returned by that client's read().
C1_SendReachesConnectedClients ==
  \A k \in Conns, i \in 1..MaxSends :
     SentToConnected(k, i) ~> InSeq(SendTexts[i], got[k])

\* The client session on connection k has seen the Disconnected error, or has
\* left the connection.
ObservedDisconnected(k) ==
  \A c \in Clients : socket[c] = k => ret[c].res = "Disconnected"

\* C2: after shutdown() every worker live at the call terminates and every
\* client connected at the call observes Disconnected.
C2_ShutdownReachesEveryWorker ==
  shut.called ~>
    /\ \A k \in shut.live : wpc[k] = "done"
    /\ \A k \in shut.conn : ObservedDisconnected(k)

\* C3: whenever a worker is about to read the next inbound message or to take
\* a control message, every reply enqueued so far has been written to its own
\* connection, in enqueue order; in the flush loop what is written and what is
\* queued make up what is owed, in order; what the client reads is what the
\* worker wrote; with an echo callback and no broadcast the client reads back
\* the texts it wrote.
C3_RepliesFlushedInOrder ==
  \A k \in Conns :
    /\ wpc[k] \in {"read", "ctrl"} => q[k] = <<>> /\ wrote[k] = due[k]
    /\ wpc[k] = "flush" => q[k] # <<>> /\ wrote[k] \o q[k] = due[k]
    /\ IsPrefix(wrote[k], due[k])
    /\ cliOpen[k] => got[k] \o TextsOf(s2c[k]) = wrote[k]
    /\ (peer[k] # 0 /\ on_message[peer[k]] = "echo" /\ nsend = 0)
          => IsPrefix(got[k], SubSeq(ClientTexts, 1, nw[k]))

\* C3, its case: a callback that enqueued two replies for one message, a
\* broadcast queued behind them, and the client has read both replies in order.
C3_Witness ==
  \E k \in Conns :
    /\ peer[k] # 0
    /\ on_message[peer[k]] = "twice"
    /\ wpc[k] = "ctrl"
    /\ ctrl[k] = <<SendTexts[1]>>
    /\ wrote[k] = <<ClientTexts[1], "ack">>
    /\ got[k] = wrote[k]

\* The client sessions that are Connected.
ConnectedClients == {c \in Clients : socket[c] # 0}

\* C11: once n clients have connected (none has disconnected in this scenario)
\* connection_count() eventually is at least n, and it never goes down, so it
\* stays at least n from then on.
C11_CountCatchesUp ==
  /\ \A n \in 1..NClients :
        (Cardinality(ConnectedClients) >= n) ~> (connection_count >= n)
  /\ [][Len(thread_senders') >= Len(thread_senders)]_vars

\* C11, its case: the count is behind the connects (a client's connect() has
\* returned and its worker has not registered yet), and later it has caught up
\* with both clients.
C11_Witness ==
  /\ Cardinality(ConnectedClients) = NClients
  /\ connection_count = NClients
  /\ \A c \in Clients : ret[c] = Ret("connect", "Ok", "")

\* C12: shutdown() on a listening server has enqueued Shutdown on every channel
\* registered at the call before the accept loop is signalled; it returns Ok
\* only when the accept loop thread has ended; once called it always returns
\* (the accept loop being scheduled); it waits for no worker.
C12_ShutdownSignalsThenWaits ==
  /\ [](\A l \in Listeners :
          (lsig[l] \/ (spc = "wait" /\ thread_ctrl = l)) =>
            /\ shut.called
            /\ \A k \in shut.reg : InSeq("SHUTDOWN", ctrl[k]) \/ wpc[k] = "done")
  /\ [](sret = Ret("shutdown", "Ok", "") /\ spc = "idle" =>
          thread_ctrl # 0 /\ lpc[thread_ctrl] = "ended")
  /\ (spc # "idle" /\ thread_ctrl # 0)
        ~> (spc = "idle" /\ sret.op = "shutdown" /\ sret.res \in {"Ok", "Err"})

\* C12, its case: shutdown() has returned Ok and a worker that was sent
\* Shutdown is still running, as is one that was never sent it.
C12_Witness ==
  /\ sret = Ret("shutdown", "Ok", "")
  /\ spc = "idle"
  /\ \E k \in shut.reg : Running(k) /\ ctrl[k] = <<"SHUTDOWN">>
  /\ \E k \in Conns \ shut.reg : Running(k)

\* The accept loop that thread_ctrl signals has exited.
LoopGone == thread_ctrl # 0 /\ lpc[thread_ctrl] = "ended"

\* C13: a shutdown() that finds the accept loop already gone returns an error:
\* it does not enter the wait loop and does not report success; a shutdown()
\* whose signal was delivered returns Ok.
C13_ShutdownAfterLoopExit ==
  /\ [][spc = "signal" /\ LoopGone => spc' # "wait"]_vars
  /\ [][spc = "signal" /\ spc' = "idle" /\ thread_ctrl # 0 =>
          LoopGone /\ sret' = Ret("shutdown", "Err", "")]_vars
  /\ [][spc = "wait" /\ spc' # "wait" => spc' = "idle" /\ sret' = Ret("shutdown", "Ok", "")]_vars
  /\ (spc = "signal" /\ LoopGone) ~> (spc = "idle" /\ sret = Ret("shutdown", "Err", ""))
  /\ (spc = "wait") ~> (spc = "idle" /\ sret = Ret("shutdown", "Ok", ""))

\* C13, its case: the second shutdown() after a successful one has returned the
\* error.
C13_Witness ==
  /\ nshut = 2
  /\ spc = "idle"
  /\ sret = Ret("shutdown", "Err", "")
  /\ LoopGone

\* The accept loop threads that are running.
RunningLoops == {l \in Listeners : lpc[l] = "run"}

\* C14: a server instance has at most one accept loop, and a listen() on a
\* listening instance is rejected leaving the running loop and its signal
\* channel as they were: a running loop is the one thread_ctrl signals.
C14_SingleAcceptLoop ==
  /\ Cardinality(RunningLoops) <= 1
  /\ \A l \in RunningLoops : thread_ctrl = l

\* C15: a control-queue check that a worker makes while Shutdown is queued for
\* it either handles the Shutdown or leaves it to be handled by the very next
\* check (it is then at the head of the queue), whatever was queued ahead.
C15_ShutdownHandledByNextCheck ==
  [][\A k \in Conns :
       /\ wpc[k] = "ctrl" /\ wpc'[k] = "read"
       /\ InSeq("SHUTDOWN", ctrl[k])
       => ctrl'[k] # <<>> /\ Head(ctrl'[k]) = "SHUTDOWN"
    ]_vars

\* The position of a broadcast text in the order of the send() calls.
SendIndex(t) == CHOOSE i \in 1..Len(SendTexts) : SendTexts[i] = t
InSendOrder(sq) ==
  \A i, j \in 1..Len(sq) : i < j => SendIndex(sq[i]) < SendIndex(sq[j])

\* The send() calls that reached connection k and are not waiting in its queue.
TakenSends(k) ==
  {i \in 1..Len(sendLog) : k \in sendLog[i].reg /\ ~InSeq(SendTexts[i], ctrl[k])}

\* C16: a connection's control messages are handled in send order.  What a
\* worker writes for a Send is the head of its queue, so m1 is written before
\* m2; the queue only loses its head and grows at its tail; a worker that ends
\* on a queued Shutdown has written every Send queued before it, then the close
\* frame, and writes nothing that was queued behind it.
C16_ControlInSendOrder ==
  /\ [](\A k \in Conns :
          /\ InSendOrder(wrote[k])
          /\ \A i \in 1..Len(s2c[k]) : s2c[k][i] = "CLOSE" => i = Len(s2c[k]))
  /\ [][\A k \in Conns :
          /\ wrote'[k] # wrote[k] =>
               /\ wpc[k] = "ctrl" /\ ctrl[k] # <<>>
               /\ wrote'[k] = Append(wrote[k], Head(ctrl[k]))
               /\ ctrl'[k] = Tail(ctrl[k])
          /\ ctrl'[k] # ctrl[k] =>
               \/ ctrl[k] # <<>> /\ ctrl'[k] = Tail(ctrl[k])
               \/ ctrl'[k] # <<>> /\ ctrl[k] = SubSeq(ctrl'[k], 1, Len(ctrl'[k]) - 1)
               \/ ctrl'[k] = <<>> /\ wpc'[k] = "done"
          /\ wpc[k] = "ctrl" /\ wpc'[k] = "done" /\ InSeq("SHUTDOWN", ctrl[k]) =>
               /\ Head(ctrl[k]) = "SHUTDOWN"
               /\ wrote'[k] = wrote[k]
               /\ \A i \in TakenSends(k) : InSeq(SendTexts[i], wrote[k])
               /\ cliOpen[k] => s2c'[k] = Append(s2c[k], "CLOSE")
          /\ wpc[k] = "done" => wrote'[k] = wrote[k] /\ wpc'[k] = "done"
       ]_vars

\* C16, its case: send(s1), shutdown(), send(s2) with the worker running all
\* along; the worker wrote s1, then the close frame, and never s2; the client
\* read s1 and then saw the close.
C16_Witness ==
  \E k \in Conns :
    /\ Len(sendLog) = 2
    /\ k \in sendLog[1].reg /\ k \in sendLog[2].reg
    /\ wpc[k] = "done"
    /\ wrote[k] = <<SendTexts[1]>>
    /\ got[k] = <<SendTexts[1]>>
    /\ ret[Solo] = Ret("read", "Disconnected", "CloseFrame")

\* C17: once the server value is dropped, every running worker eventually
\* finds its control channel disconnected, closes and terminates.
C17_DropEndsWorkers ==
  dropped ~> (\A k \in Conns : ~Live(k))

\* C18: the Close Coordinator is the same in the client session and in the
\* worker: where a worker has sent its close frame, its wait loop goes on under
\* the conditions under which the client's goes on (flush not yet failed or
\* finished, ceiling not reached) and stops under the same conditions.
C18_SameCloseCoordinator ==
  \A k \in Conns :
    wpc[k] = "done" /\ InSeq("CLOSE", s2c[k]) =>
      \A pending, elapsed \in BOOLEAN :
        Conn_close_waits(pending, elapsed) = client_close_waits(pending, elapsed)

\* The worker of connection k is about to read a text for which its callback
\* fails.
CallbackWillFail(k) ==
  /\ wpc[k] = "read"
  /\ c2s[k] # <<>> /\ Head(c2s[k]) \in Texts
  /\ ~Callback(on_message[peer[k]], Head(c2s[k])).ok

\* C19: when the callback fails for an inbound text, the worker writes none of
\* the replies it enqueued, sends a close frame and terminates; when a write
\* fails in the flush loop, the replies still queued are not written and the
\* worker closes and terminates; a terminated worker writes nothing more.
C19_FailuresStopTheWorker ==
  [][\A k \in Conns :
       /\ CallbackWillFail(k) /\ wpc'[k] # wpc[k] =>
            /\ wpc'[k] = "done"
            /\ ~srvOpen'[k]
            /\ wrote'[k] = wrote[k] /\ due'[k] = due[k] /\ q'[k] = <<>>
            /\ cliOpen[k] => s2c'[k] = Append(s2c[k], "CLOSE")
       /\ wpc[k] = "flush" /\ wpc'[k] = "done" =>
            /\ ~cliOpen[k]
            /\ ~srvOpen'[k]
            /\ wrote'[k] = wrote[k] /\ q'[k] = <<>>
            /\ wrote[k] \o q[k] = due[k] /\ q[k] # <<>>
       /\ wpc[k] = "done" => wpc'[k] = "done" /\ wrote'[k] = wrote[k]
    ]_vars

\* C19, its case: the callback enqueued two replies, the first was written, the
\* write of the second failed (the client had closed) and the worker ended.
C19_Witness ==
  \E k \in Conns :
    /\ peer[k] # 0 /\ on_message[peer[k]] = "twice"
    /\ wpc[k] = "done"
    /\ due[k] = <<ClientTexts[1], "ack">>
    /\ wrote[k] = <<ClientTexts[1]>>

\* Connection j registered its sender before connection k did.
RegisteredBefore(j, k) ==
  \E a, b \in 1..Len(thread_senders) :
    a < b /\ thread_senders[a] = j /\ thread_senders[b] = k

\* C20: a failure on one connection is isolated.  The step in which a worker
\* terminates leaves every other connection, the registry and the accept loop
\* as they were; a send() enqueues its message on the channel of every
\* registered worker that is running, whatever became of the others; and the
\* accept loop of a listening server goes on running.
C20_FailureIsIsolated ==
  /\ [][\A j \in Conns :
          wpc[j] # "done" /\ wpc'[j] = "done" =>
            /\ \A k \in Conns \ {j} :
                 /\ wpc'[k] = wpc[k] /\ srvOpen'[k] = srvOpen[k]
                 /\ ctrl'[k] = ctrl[k] /\ q'[k] = q[k]
                 /\ s2c'[k] = s2c[k] /\ c2s'[k] = c2s[k]
            /\ thread_senders' = thread_senders
            /\ lpc' = lpc /\ lsig' = lsig /\ thread_ctrl' = thread_ctrl
     ]_vars
  /\ [][nsend' = nsend + 1 =>
          \A k \in Registered :
            Running(k) => ctrl'[k] = Append(ctrl[k], SendTexts[nsend + 1])
     ]_vars
  /\ [](thread_ctrl # 0 => lpc[thread_ctrl] = "run" /\ ~lsig[thread_ctrl])

\* C20, its case: send() ran when the worker registered first had terminated
\* and the worker registered after it was running; the message is on the
\* second worker's channel or has been written by it, and the accept loop runs.
C20_Witness ==
  \E j, k \in Conns :
    /\ RegisteredBefore(j, k)
    /\ nsend = 1
    /\ k \in sendLog[1].reg /\ j \notin sendLog[1].reg
    /\ wpc[j] = "done"
    /\ InSeq(SendTexts[1], ctrl[k]) \/ InSeq(SendTexts[1], wrote[k])
    /\ thread_ctrl # 0 /\ lpc[thread_ctrl] = "run"

\* C21: read_timeout(d) has a hard cutoff.  While the call waits, no more than
\* d has passed since it began, and when it returns None, it does so no later
\* than d after the call, skipped frames or not.
C21_HardCutoff ==
  \A c \in Clients :
    /\ rtcall[c].pc = "recv" => rtcall[c].elapsed <= rtcall[c].timeout
    /\ rtcall[c].pc = "idle" /\ ret[c] = Ret("read_timeout", "None", "") =>
         rtcall[c].elapsed <= rtcall[c].timeout

\* The connections whose handshake with a worker of this server succeeded, and
\* those among them whose worker has pushed its sender.
Handshakes == {k \in Conns : peer[k] # 0 /\ hs[k] = "ok"}
PastRegistration == {k \in Handshakes : wpc[k] \in {"read", "ctrl", "flush", "done"}}

\* C22 as stated: connection_count() equals the number of successful
\* handshakes so far.
C22_CountIsHandshakes == connection_count = Cardinality(Handshakes)

\* C22: the registry only grows.  Each step leaves it as it was or appends one
\* entry, that of a connection whose handshake succeeded and which had none; no
\* step (worker termination, send, shutdown) removes or reorders entries.  So
\* the registry holds, once each, the connections whose worker has come past
\* its push, connection_count() never decreases, and it is behind the number
\* of successful handshakes by the workers between handshake and push.
C22_RegistryOnlyGrows ==
  /\ [][\/ thread_senders' = thread_senders
        \/ \E k \in Handshakes \ Registered :
             /\ wpc[k] = "register"
             /\ thread_senders' = Append(thread_senders, k)
     ]_vars
  /\ [](/\ Registered = PastRegistration
        /\ \A i, j \in 1..Len(thread_senders) :
             thread_senders[i] = thread_senders[j] => i = j
        /\ connection_count = Cardinality(PastRegistration)
        /\ connection_count + Cardinality({k \in Conns : wpc[k] = "register"})
             = Cardinality(Handshakes))

\* C22, its case: two workers registered one after the other, a send() and a
\* shutdown() have run, a registered worker has terminated, and both entries
\* are still there.
C22_Witness ==
  /\ Len(thread_senders) = 2
  /\ nsend = 1 /\ sret = Ret("shutdown", "Ok", "")
  /\ \E k \in Registered : wpc[k] = "done"

====
